---- MODULE Spec2Model ----
(***************************************************************************)
(* A model of the Utils helper namespace (src/index.js, compiled from the  *)
(* TypeScript source): the response-envelope callback, the Express         *)
(* middleware factories, the async route wrappers, pack, isEmpty, the      *)
(* version-1 UUID timestamp decoder, logicError and parseIntNull, and the  *)
(* route wrappers with several requests in flight.                         *)
(*                                                                         *)
(* Each area has its own specification over its own variable; the other    *)
(* variables stay at Idle.                                                 *)
(***************************************************************************)
EXTENDS Integers, Sequences, FiniteSets, TLC

VARIABLES svc, mw, route, pk, ie, uu, le, pin, conc

vars == <<svc, mw, route, pk, ie, uu, le, pin, conc>>

Idle == [pc |-> "idle"]

(***************************************************************************)
(* JavaScript values.  A value is a record tagged by t; each other field   *)
(* name carries one type only.                                             *)
(***************************************************************************)
Undefined == [t |-> "undefined"]
Null == [t |-> "null"]
NaN == [t |-> "nan"]
Infinity == [t |-> "inf"]
Num(n) == [t |-> "num", n |-> n]
Str(s) == [t |-> "str", s |-> s]
Bool(b) == [t |-> "bool", b |-> b]
Arr(a) == [t |-> "arr", a |-> a]
\* the number -0
NegZero == [t |-> "negzero"]
\* a string given by its characters, for the functions that read them
Chars(cs) == [t |-> "chars", cs |-> cs]
\* a function value without own enumerable properties
Fn == [t |-> "fn"]
\* a Date instance; iso is what Date.prototype.toJSON yields
DateV == [t |-> "date", iso |-> "2020-01-01T00:00:00.000Z"]
\* an object of class cls whose properties (read by obj.k) are o
ObjOf(cls, o) == [t |-> "obj", cls |-> cls, o |-> o]
Obj(o) == ObjOf("Object", o)
NoProps == [k \in {} |-> Undefined]
EmptyObj == Obj(NoProps)

\* obj[k], for the property reads of the code (undefined when missing)
Get(v, k) == IF v.t = "obj" /\ k \in DOMAIN v.o THEN v.o[k] ELSE Undefined

\* obj[k] = x on an object
Put(v, k, x) == ObjOf(v.cls, [j \in DOMAIN v.o \cup {k} |-> IF j = k THEN x ELSE v.o[j]])

\* ToBoolean: what `if (v)` tests
Truthy(v) ==
    CASE v.t \in {"undefined", "null", "nan", "negzero"} -> FALSE
      [] v.t = "bool" -> v.b
      [] v.t = "num" -> v.n # 0
      [] v.t = "str" -> v.s # ""
      [] OTHER -> TRUE

\* v == undefined (loose): true of undefined and null only
LooseUndefined(v) == v.t \in {"undefined", "null"}

\* lodash.isNumber / lodash.isNaN / lodash.isString on primitives
IsNumber(v) == v.t \in {"num", "nan", "inf"}
IsNaN(v) == v.t = "nan"
IsString(v) == v.t = "str"

\* the own enumerable keys of a value (Object.keys, for..in, JSON.stringify):
\* an Error's message and stack are not enumerable
EnumKeys(v) ==
    IF v.t # "obj" THEN {}
    ELSE IF v.cls \in {"Error", "APILogicError"} THEN DOMAIN v.o \ {"message", "stack"}
    ELSE DOMAIN v.o

\* a variant that serializes the field under its own name, logicErrCode
toJSON_NoRename(v) ==
    Obj([httpCode |-> Get(v, "httpCode"), logicErrCode |-> Get(v, "logicErrCode"),
         title |-> Get(v, "title"), message |-> Get(v, "message"),
         pars |-> Get(v, "pars")])

\* APILogicError.prototype.toJSON
toJSON(v) ==
    Obj([httpCode |-> Get(v, "httpCode"), code |-> Get(v, "logicErrCode"),
         title |-> Get(v, "title"), message |-> Get(v, "message"),
         pars |-> Get(v, "pars")])

\* JSON.stringify(v) !== undefined: undefined and functions have no JSON text
Serializable(v) == v.t \notin {"undefined", "fn"}

\* JSON.parse(JSON.stringify(v)) of a serializable v: NaN and Infinity become
\* null, a Date its ISO string, undefined and function members are dropped
\* from objects and become null in arrays, toJSON is honoured, and the result
\* is plain data
RECURSIVE JSONRoundTrip(_)
JSONRoundTrip(v) ==
    CASE v.t \in {"nan", "inf", "undefined", "fn"} -> Null
      [] v.t = "date" -> Str(v.iso)
      [] v.t = "arr" -> Arr([i \in 1..Len(v.a) |-> JSONRoundTrip(v.a[i])])
      [] v.t = "obj" ->
           IF v.cls = "APILogicError" THEN JSONRoundTrip(toJSON(v))
           ELSE LET ks == {k \in EnumKeys(v) : Serializable(v.o[k])}
                IN Obj([k \in ks |-> JSONRoundTrip(v.o[k])])
      [] OTHER -> v

\* parseInt(v) for the values err.code takes here
ParseInt(v) == IF v.t = "num" THEN v ELSE NaN

(***************************************************************************)
(* The response object: statusCode and the bodies passed to send.          *)
(***************************************************************************)
FreshResp == [statusCode |-> Undefined, sent |-> <<>>]

\* the outcome of a call: the response after it and whether it threw
Returned(resp) == [resp |-> resp, threw |-> FALSE]
Threw(resp) == [resp |-> resp, threw |-> TRUE]

\* lodash.isNumber(code) && !lodash.isNaN(code)
StatusUsable(code) == IsNumber(code) /\ ~IsNaN(code)

\* if (data) { resData = JSON.parse(JSON.stringify(data)) }
DataTaken(data) == Truthy(data)

\* The callback built by createServiceCallback(resp), called with (err, data).
\* The module is strict: assigning a property on a primitive throws.
createServiceCallback(resp, err, data) ==
    IF DataTaken(data) /\ ~Serializable(data) THEN Threw(resp)
    ELSE
    LET resData == IF DataTaken(data) THEN JSONRoundTrip(data) ELSE EmptyObj
        r200 == [resp EXCEPT !.statusCode = Num(200)]
    IN IF ~Truthy(err) THEN Returned([r200 EXCEPT !.sent = Append(@, resData)])
       ELSE IF ~Serializable(err) THEN Threw(r200)
       ELSE
       LET e0 == JSONRoundTrip(err)
       IN IF e0.t # "obj" THEN Threw(r200)
          ELSE
          LET e1 == IF LooseUndefined(Get(e0, "message"))
                    THEN Put(e0, "message", Get(err, "message")) ELSE e0
              e2 == IF LooseUndefined(Get(e1, "code"))
                    THEN Put(e1, "code", ParseInt(Get(err, "code"))) ELSE e1
              code == Get(err, "httpCode")
              rs == [r200 EXCEPT !.statusCode = IF StatusUsable(code) THEN code ELSE Num(500)]
          IN IF resData.t # "obj" THEN Threw(rs)
             ELSE Returned([rs EXCEPT !.sent = Append(@, Put(resData, "err", e2))])

(***************************************************************************)
(* Inputs of the envelope callback.                                        *)
(***************************************************************************)
\* new APILogicError(title, message, httpCode, logicErrCode, ...pars)
APILogicError(title, message, httpCode, logicErrCode, pars) ==
    ObjOf("APILogicError",
          [title |-> Str(title), message |-> Str(message), httpCode |-> Num(httpCode),
           logicErrCode |-> Num(logicErrCode), pars |-> Arr(pars), stack |-> Str("stack")])

\* new Error(message)
ErrorOf(message) == ObjOf("Error", [message |-> Str(message), stack |-> Str("stack")])

HttpCodeValues == {Undefined, Null, NaN, Infinity, Num(0), Num(400), Num(404), Str("404")}

\* plain error objects {httpCode?, message?, code?}
PlainErrors ==
    { Obj([k \in ks |-> CASE k = "httpCode" -> h [] k = "message" -> Str("nf") [] OTHER -> Num(7)])
        : ks \in SUBSET {"httpCode", "message", "code"}, h \in HttpCodeValues }

LogicErrors ==
    { APILogicError(ti, "M", h, c, p)
        : ti \in {"T", ""}, h \in {404, 409}, c \in {0, 10},
          p \in {<<>>, <<Str("x")>>, <<Str("x"), Num(2), Bool(FALSE)>>} }

ErrorInstances == {ErrorOf("boom"), ErrorOf("")}

\* the values a handler may reject with or throw
ErrValues == PlainErrors \cup LogicErrors \cup ErrorInstances \cup {Str("boom")}

DataValues ==
    {Undefined, Null, NaN, Num(0), Num(1), Str(""), Str("a"), Bool(FALSE), Bool(TRUE),
     Fn, DateV, EmptyObj, Arr(<<>>), Arr(<<Num(1), Undefined>>),
     Obj([a |-> Num(1)]), Obj([a |-> Num(1), f |-> Fn]), Obj([u |-> Undefined]),
     Obj([a |-> Arr(<<Num(0)>>), n |-> NaN])}

(***************************************************************************)
(* SpecSvc: one call of the callback built by createServiceCallback, as    *)
(* its callers make it: callback(err) or callback(null, data).             *)
(***************************************************************************)
SvcArgs ==
    { [err |-> Null, data |-> d] : d \in DataValues }
      \cup { [err |-> e, data |-> Undefined] : e \in ErrValues }

SvcInit ==
    /\ svc \in { [pc |-> "ready", err |-> a.err, data |-> a.data,
                  resp |-> FreshResp, threw |-> FALSE] : a \in SvcArgs }
    /\ mw = Idle /\ route = Idle /\ pk = Idle /\ ie = Idle /\ uu = Idle
    /\ le = Idle /\ pin = Idle /\ conc = Idle

SvcInvoke ==
    /\ svc.pc = "ready"
    /\ LET r == createServiceCallback(svc.resp, svc.err, svc.data)
       IN svc' = [svc EXCEPT !.pc = "called", !.resp = r.resp, !.threw = r.threw]
    /\ UNCHANGED <<mw, route, pk, ie, uu, le, pin, conc>>

SvcNext == SvcInvoke

SpecSvc == SvcInit /\ [][SvcNext]_vars

(***************************************************************************)
(* Validation and transformation middleware.                               *)
(***************************************************************************)
\* A compiled validator function: validator(v) returns a boolean and leaves
\* its findings in validator.errors (null after a pass).
Validators == {"requireA", "aIsNumber"}

ValidatorAccepts(validator, v) ==
    CASE validator = "requireA" -> v.t = "obj" /\ "a" \in DOMAIN v.o
      [] OTHER -> v.t = "obj" /\ "a" \in DOMAIN v.o /\ v.o["a"].t = "num"

ValidatorErrors(validator, v) ==
    IF ValidatorAccepts(validator, v) THEN Null
    ELSE IF v.t # "obj" THEN Arr(<<Obj([keyword |-> Str("type")])>>)
    ELSE IF "a" \notin DOMAIN v.o THEN Arr(<<Obj([keyword |-> Str("required")])>>)
    ELSE Arr(<<Obj([keyword |-> Str("type"), dataPath |-> Str(".a")])>>)

\* The (req, resp, next) => ... built by validBody(validator), run on the
\* middleware state m.
validMiddleware(m, subject) ==
    IF ~ValidatorAccepts(m.validator, subject)
    THEN [m EXCEPT !.pc = "done",
                   !.resp = [statusCode |-> Num(400),
                             sent |-> Append(m.resp.sent,
                                             Obj([err |-> ValidatorErrors(m.validator, subject)]))]]
    ELSE [m EXCEPT !.pc = "done", !.nextCalls = @ + 1]

validBody(m) == validMiddleware(m, m.req.body)

\* a variant that validates the body where the query is meant
validQuery_Body(m) == validMiddleware(m, m.req.body)

validQuery(m) == validMiddleware(m, m.req.query)

\* Schema entries: functions of the field's value, or something that is not
\* a function.  inc is a strict numeric transformer that throws on other
\* input; boom always throws.
Transformers == {"inc", "zero", "undef", "id", "boom", "notfn"}

IsFunction(f) == f # "notfn"

TransformerThrows(f, d) == f = "boom" \/ (f = "inc" /\ d.t # "num")

TransformerResult(f, d) ==
    CASE f = "inc" -> Num(d.n + 1)
      [] f = "zero" -> Num(0)
      [] f = "undef" -> Undefined
      [] OTHER -> d

\* lodash.set(src, k, td) for a flat key: nothing happens unless src is an object
LodashSet(src, k, td) == IF src.t = "obj" THEN Put(src, k, td) ELSE src

\* one turn of the for..in loop of transformBySchema, on entry e = [k, f]
TransformEntry(src, e) ==
    LET d == Get(src, e.k)
    IN IF ~IsFunction(e.f) THEN src
       ELSE IF TransformerThrows(e.f, d) THEN src
       ELSE LET td == TransformerResult(e.f, d)
            IN IF td # d THEN LodashSet(src, e.k, td) ELSE src

RECURSIVE TransformFrom(_, _, _)
TransformFrom(src, schema, i) ==
    IF i > Len(schema) THEN src
    ELSE TransformFrom(TransformEntry(src, schema[i]), schema, i + 1)

\* a variant whose try/catch surrounds the loop: the first throw ends it
RECURSIVE TransformFromAbort(_, _, _)
TransformFromAbort(src, schema, i) ==
    IF i > Len(schema) THEN src
    ELSE IF IsFunction(schema[i].f) /\ TransformerThrows(schema[i].f, Get(src, schema[i].k))
    THEN src
    ELSE TransformFromAbort(TransformEntry(src, schema[i]), schema, i + 1)

transformBySchema_Abort(src, schema) == TransformFromAbort(src, schema, 1)

\* transformBySchema(src, schema): schema is the sequence of its entries in
\* for..in order; the result is src after the in-place updates
transformBySchema(src, schema) == TransformFrom(src, schema, 1)

\* try { transformBySchema(...) } catch (ex) {} finally { next() }
transformBody(m) ==
    [m EXCEPT !.pc = "done", !.req.body = transformBySchema(m.req.body, m.schema),
              !.nextCalls = @ + 1]

transformQuery(m) ==
    [m EXCEPT !.pc = "done", !.req.query = transformBySchema(m.req.query, m.schema),
              !.nextCalls = @ + 1]

\* request payloads: req.body / req.query
Payloads ==
    {Undefined, EmptyObj, Obj([a |-> Num(1)]), Obj([a |-> Str("x")]),
     Obj([b |-> Num(5)]), Obj([a |-> Num(1), b |-> Str("y")])}

SchemaKeys == <<"a", "b">>

\* schemas over the keys a and b, one transformer each
Schemas ==
    { <<[k |-> SchemaKeys[1], f |-> f1], [k |-> SchemaKeys[2], f |-> f2]>>
        : f1 \in Transformers, f2 \in Transformers }
      \cup { <<[k |-> SchemaKeys[2], f |-> f1]>> : f1 \in Transformers }

MwKinds == {"validBody", "validQuery", "transformBody", "transformQuery"}

MwInit ==
    /\ mw \in { [pc |-> "ready", kind |-> kd, req |-> [body |-> b, query |-> q],
                 req0 |-> [body |-> b, query |-> q], resp |-> FreshResp, nextCalls |-> 0,
                 validator |-> v, schema |-> <<>>]
                  : kd \in {"validBody", "validQuery"}, b \in Payloads, q \in Payloads,
                    v \in Validators }
             \cup
              { [pc |-> "ready", kind |-> kd, req |-> [body |-> b, query |-> q],
                 req0 |-> [body |-> b, query |-> q], resp |-> FreshResp, nextCalls |-> 0,
                 validator |-> "requireA", schema |-> s]
                  : kd \in {"transformBody", "transformQuery"}, b \in Payloads,
                    q \in {EmptyObj, Obj([a |-> Num(1)])}, s \in Schemas }
    /\ svc = Idle /\ route = Idle /\ pk = Idle /\ ie = Idle /\ uu = Idle
    /\ le = Idle /\ pin = Idle /\ conc = Idle

MwValidBody ==
    /\ mw.pc = "ready" /\ mw.kind = "validBody"
    /\ mw' = validBody(mw)
    /\ UNCHANGED <<svc, route, pk, ie, uu, le, pin, conc>>

MwValidQuery ==
    /\ mw.pc = "ready" /\ mw.kind = "validQuery"
    /\ mw' = validQuery(mw)
    /\ UNCHANGED <<svc, route, pk, ie, uu, le, pin, conc>>

MwTransformBody ==
    /\ mw.pc = "ready" /\ mw.kind = "transformBody"
    /\ mw' = transformBody(mw)
    /\ UNCHANGED <<svc, route, pk, ie, uu, le, pin, conc>>

MwTransformQuery ==
    /\ mw.pc = "ready" /\ mw.kind = "transformQuery"
    /\ mw' = transformQuery(mw)
    /\ UNCHANGED <<svc, route, pk, ie, uu, le, pin, conc>>

MwNext == MwValidBody \/ MwValidQuery \/ MwTransformBody \/ MwTransformQuery

SpecMw == MwInit /\ [][MwNext]_vars

(***************************************************************************)
(* Async route adaptation: routeAsync and routeNextableAsync.              *)
(*                                                                         *)
(* route.wrapper and route.provider describe the one wrapper under test;   *)
(* route.reqs[r] is request r passing through it:                          *)
(*   pc       new | pending | caught | done | threw                        *)
(*   outcome  what the handler did (resolve / reject / throw, and with     *)
(*            what), none before it settles                                *)
(*   resp     the request's own response object                            *)
(*   calls    the invocations of the request's callback, in order          *)
(*   raised   the rejection travelling to the .catch handler               *)
(*   logged   the errors written by console.log                            *)
(*   unhandled  a handler of the chain threw with nothing left to catch it *)
(***************************************************************************)
MaxReq == 2

Requests == 1..MaxReq

Wrappers == {"routeAsync", "routeNextableAsync"}

\* no provider given (the envelope writer of createServiceCallback), or a
\* caller's provider whose callback only records, or one whose callback throws
Providers == {"default", "custom", "customThrowing"}

NoOutcome == [kind |-> "none", v |-> Undefined]

NewRequest ==
    [pc |-> "new", outcome |-> NoOutcome, resp |-> FreshResp, calls |-> <<>>,
     raised |-> Undefined, logged |-> <<>>, unhandled |-> FALSE]

\* what a callback throws when it throws
CallbackFailure == ErrorOf("callback failed")

\* callback(err, data) on request q, with the callback the provider gave:
\* the request after the call, and whether the call threw
InvokeCallback(provider, q, err, data) ==
    LET called == [q EXCEPT !.calls = Append(@, [err |-> err, data |-> data])]
    IN IF provider = "default"
       THEN LET r == createServiceCallback(q.resp, err, data)
            IN [q |-> [called EXCEPT !.resp = r.resp], threw |-> r.threw]
       ELSE [q |-> called, threw |-> provider = "customThrowing"]

\* err instanceof Error
InstanceOfError(err) == err.t = "obj" /\ err.cls \in {"Error", "APILogicError"}

\* routeAsync: .then((data) => { callback(null, data); })
\* a throw rejects the promise the .catch is chained on
routeAsyncThen(provider, q, data) ==
    LET c == InvokeCallback(provider, q, Null, data)
    IN IF c.threw THEN [c.q EXCEPT !.pc = "caught", !.raised = CallbackFailure]
       ELSE [c.q EXCEPT !.pc = "done"]

\* routeAsync: a rejection skips the .then handler and reaches the .catch
routeAsyncRejected(provider, q, err) == [q EXCEPT !.pc = "caught", !.raised = err]

\* routeAsync: .catch((err) => { if (err instanceof Error) console.log(err); callback(err); })
routeAsyncCatch(provider, q) ==
    LET err == q.raised
        l == IF InstanceOfError(err) THEN [q EXCEPT !.logged = Append(@, err)] ELSE q
        c == InvokeCallback(provider, l, err, Undefined)
    IN [c.q EXCEPT !.pc = "done", !.unhandled = c.threw]

\* a variant that tests `if (data)`
ResultPresent_Truthy(data) == Truthy(data)

\* data != undefined
ResultPresent(data) == ~LooseUndefined(data)

\* routeNextableAsync: .then((data) => { if (data != undefined) callback(null, data); }, ...)
routeNextableAsyncThen(provider, q, data) ==
    IF ResultPresent(data)
    THEN LET c == InvokeCallback(provider, q, Null, data)
         IN [c.q EXCEPT !.pc = "done", !.unhandled = c.threw]
    ELSE [q EXCEPT !.pc = "done"]

\* routeNextableAsync: .then(..., (err) => { callback(err); })
routeNextableAsyncRejected(provider, q, err) ==
    LET c == InvokeCallback(provider, q, err, Undefined)
    IN [c.q EXCEPT !.pc = "done", !.unhandled = c.threw]

\* what handlers resolve with, reject with or throw
RouteData ==
    {Undefined, Null, Num(0), Bool(FALSE), Str("a"), Obj([a |-> Num(1), f |-> Fn]), Fn}

RouteErrors ==
    {APILogicError("T", "M", 404, 10, <<Str("x")>>),
     APILogicError("", "M", 409, 0, <<Str("x"), Num(2), Bool(FALSE)>>),
     APILogicError("T", "M", 409, 10, <<>>),
     ErrorOf("boom"), Obj([httpCode |-> Num(400), message |-> Str("nf")]), Str("boom")}

RouteInit ==
    /\ route \in { [wrapper |-> w, provider |-> p, reqs |-> [r \in Requests |-> NewRequest]]
                     : w \in Wrappers, p \in Providers }
    /\ svc = Idle /\ mw = Idle /\ pk = Idle /\ ie = Idle /\ uu = Idle
    /\ le = Idle /\ pin = Idle /\ conc = Idle

\* the middleware is called: the callback is derived from (req, resp) and the
\* handler returns its promise
RouteInvoke(r) ==
    /\ route.reqs[r].pc = "new"
    /\ route' = [route EXCEPT !.reqs[r].pc = "pending"]
    /\ UNCHANGED <<svc, mw, pk, ie, uu, le, pin, conc>>

\* the middleware is called and the handler throws before returning a
\* promise: the exception leaves the middleware
RouteInvokeThrows(r) ==
    /\ route.reqs[r].pc = "new"
    /\ \E e \in RouteErrors :
         route' = [route EXCEPT !.reqs[r].pc = "threw",
                                !.reqs[r].outcome = [kind |-> "throw", v |-> e]]
    /\ UNCHANGED <<svc, mw, pk, ie, uu, le, pin, conc>>

\* the handler's promise resolves and the wrapper's .then handler runs
RouteResolve(r) ==
    /\ route.reqs[r].pc = "pending"
    /\ \E d \in RouteData :
         LET q == [route.reqs[r] EXCEPT !.outcome = [kind |-> "resolve", v |-> d]]
         IN route' = [route EXCEPT !.reqs[r] =
                        IF route.wrapper = "routeAsync"
                        THEN routeAsyncThen(route.provider, q, d)
                        ELSE routeNextableAsyncThen(route.provider, q, d)]
    /\ UNCHANGED <<svc, mw, pk, ie, uu, le, pin, conc>>

\* the handler's promise rejects
RouteReject(r) ==
    /\ route.reqs[r].pc = "pending"
    /\ \E e \in RouteErrors :
         LET q == [route.reqs[r] EXCEPT !.outcome = [kind |-> "reject", v |-> e]]
         IN route' = [route EXCEPT !.reqs[r] =
                        IF route.wrapper = "routeAsync"
                        THEN routeAsyncRejected(route.provider, q, e)
                        ELSE routeNextableAsyncRejected(route.provider, q, e)]
    /\ UNCHANGED <<svc, mw, pk, ie, uu, le, pin, conc>>

\* routeAsync's .catch handler runs
RouteCatch(r) ==
    /\ route.reqs[r].pc = "caught"
    /\ route' = [route EXCEPT !.reqs[r] = routeAsyncCatch(route.provider, route.reqs[r])]
    /\ UNCHANGED <<svc, mw, pk, ie, uu, le, pin, conc>>

RouteNext ==
    \E r \in Requests :
        \/ RouteInvoke(r)
        \/ RouteInvokeThrows(r)
        \/ RouteResolve(r)
        \/ RouteReject(r)
        \/ RouteCatch(r)

SpecRoute == RouteInit /\ [][RouteNext]_vars

(***************************************************************************)
(* pack(...arrs)                                                           *)
(***************************************************************************)
MaxArrs == 3

MaxLen == 3

RECURSIVE MaxOf(_, _)
MaxOf(lens, i) ==
    IF i = Len(lens) THEN lens[i]
    ELSE LET m == MaxOf(lens, i + 1) IN IF lens[i] >= m THEN lens[i] ELSE m

\* a variant that takes the first array's length
LodashMax_First(lens) == IF Len(lens) = 0 THEN Undefined ELSE Num(lens[1])

\* lodash.max(lens): undefined for an empty array
LodashMax(lens) == IF Len(lens) = 0 THEN Undefined ELSE Num(MaxOf(lens, 1))

\* how often `for (let i = 0; i < n; ++i)` runs: i < undefined is false
LoopTurns(n) == IF n.t = "num" THEN n.n ELSE 0

\* arr.length > i ? arr[i] : undefined, for the 0-based index i
PackCell(arr, i) == IF Len(arr) > i THEN arr[i + 1] ELSE Undefined

pack(arrs) ==
    LET n == LodashMax([j \in 1..Len(arrs) |-> Len(arrs[j])])
    IN [i \in 1..LoopTurns(n) |-> [j \in 1..Len(arrs) |-> PackCell(arrs[j], i - 1)]]

SeqsUpTo(S, n) == UNION { [1..k -> S] : k \in 0..n }

PackElems == {Num(1), Str("a")}

PackInit ==
    /\ pk \in { [pc |-> "ready", arrs |-> a, out |-> <<>>]
                  : a \in SeqsUpTo(SeqsUpTo(PackElems, MaxLen), MaxArrs) }
    /\ svc = Idle /\ mw = Idle /\ route = Idle /\ ie = Idle /\ uu = Idle
    /\ le = Idle /\ pin = Idle /\ conc = Idle

PackCall ==
    /\ pk.pc = "ready"
    /\ pk' = [pk EXCEPT !.pc = "done", !.out = pack(pk.arrs)]
    /\ UNCHANGED <<svc, mw, route, ie, uu, le, pin, conc>>

PackNext == PackCall

SpecPack == PackInit /\ [][PackNext]_vars

(***************************************************************************)
(* isEmpty(obj)                                                            *)
(***************************************************************************)
\* obj instanceof Array / obj instanceof Object
InstanceOfArray(v) == v.t = "arr"
InstanceOfObject(v) == v.t \in {"obj", "arr", "fn", "date"}

\* Object.keys(obj).length
KeyCount(v) == IF v.t = "arr" THEN Len(v.a) ELSE Cardinality(EnumKeys(v))

isEmpty(obj) ==
    \/ (LooseUndefined(obj) \/ IsNaN(obj) \/ obj = Bool(FALSE))
    \/ (IsString(obj) /\ obj.s = "")
    \/ (InstanceOfArray(obj) /\ Len(obj.a) = 0)
    \/ (InstanceOfObject(obj) /\ KeyCount(obj) = 0)

IsEmptyInputs ==
    DataValues \cup PlainErrors \cup ErrorInstances
      \cup {Infinity, Num(-1), Str("0"), Arr(<<Num(0)>>), Arr(<<Undefined>>), Arr(<<EmptyObj>>),
            Obj([a |-> EmptyObj]), Obj([a |-> Null]), APILogicError("T", "M", 404, 10, <<>>)}

IsEmptyInit ==
    /\ ie \in { [pc |-> "ready", obj |-> v, out |-> FALSE] : v \in IsEmptyInputs }
    /\ svc = Idle /\ mw = Idle /\ route = Idle /\ pk = Idle /\ uu = Idle
    /\ le = Idle /\ pin = Idle /\ conc = Idle

IsEmptyCall ==
    /\ ie.pc = "ready"
    /\ ie' = [ie EXCEPT !.pc = "done", !.out = isEmpty(ie.obj)]
    /\ UNCHANGED <<svc, mw, route, pk, uu, le, pin, conc>>

IsEmptyNext == IsEmptyCall

SpecIsEmpty == IsEmptyInit /\ [][IsEmptyNext]_vars

(***************************************************************************)
(* Version-1 UUID timestamps.                                              *)
(*                                                                         *)
(* A string is the sequence of its characters.  The 60-bit tick counts do  *)
(* not fit the checker's integers, so a natural number is the sequence of  *)
(* its base-10000 digits, least significant first, without leading zeros   *)
(* (<<>> is 0).  A JavaScript number is an IEEE-754 double: an integer of  *)
(* more than 53 significant bits is rounded to the nearest one that has 53 *)
(* (ties to even).                                                         *)
(***************************************************************************)
\* the divisor of `timeInt / 10000`, also the base of the digit sequences
TicksPerMs == 10000

\* 2^53 = 9007199254740992: a double keeps 53 significant bits
TwoTo53 == <<992, 5474, 1992, 9007>>

\* 2^39 = 549755813888
TwoTo39 == <<3888, 5581, 5497>>

\* the literal 122192928000000000
EpochOffset == <<0, 0, 9280, 2192, 12>>

RECURSIVE BigNorm(_)
BigNorm(x) == IF Len(x) > 0 /\ x[Len(x)] = 0 THEN BigNorm(SubSeq(x, 1, Len(x) - 1)) ELSE x

\* x * m + c, for small m and c
RECURSIVE MulAddFrom(_, _, _, _)
MulAddFrom(x, m, c, i) ==
    IF i > Len(x) THEN (IF c = 0 THEN <<>> ELSE <<c>>)
    ELSE LET t == x[i] * m + c
         IN <<t % TicksPerMs>> \o MulAddFrom(x, m, t \div TicksPerMs, i + 1)

BigMulAdd(x, m, c) == BigNorm(MulAddFrom(x, m, c, 1))

\* x mod m, for small m
RECURSIVE ModFrom(_, _, _, _)
ModFrom(x, m, i, r) == IF i = 0 THEN r ELSE ModFrom(x, m, i - 1, (r * TicksPerMs + x[i]) % m)

BigModSmall(x, m) == ModFrom(x, m, Len(x), 0)

\* x + d for a small d of either sign (x + d >= 0)
RECURSIVE AddIntFrom(_, _, _)
AddIntFrom(x, d, i) ==
    IF i > Len(x) THEN (IF d = 0 THEN <<>> ELSE <<d>>)
    ELSE LET t == x[i] + d
         IN <<t % TicksPerMs>> \o AddIntFrom(x, t \div TicksPerMs, i + 1)

BigAddInt(x, d) == BigNorm(AddIntFrom(x, d, 1))

\* x < y
RECURSIVE LessFrom(_, _, _)
LessFrom(x, y, i) ==
    IF i = 0 THEN FALSE
    ELSE IF x[i] # y[i] THEN x[i] < y[i]
    ELSE LessFrom(x, y, i - 1)

BigLess(x, y) ==
    IF Len(x) # Len(y) THEN Len(x) < Len(y) ELSE LessFrom(x, y, Len(x))

\* x - y, for x >= y
RECURSIVE SubFrom(_, _, _, _)
SubFrom(x, y, i, b) ==
    IF i > Len(x) THEN <<>>
    ELSE LET t == x[i] - (IF i <= Len(y) THEN y[i] ELSE 0) - b
         IN <<t % TicksPerMs>> \o SubFrom(x, y, i + 1, IF t < 0 THEN 1 ELSE 0)

BigSub(x, y) == BigNorm(SubFrom(x, y, 1, 0))

\* the bits of x beyond the 53 a double keeps; p is 2^(53 + s)
RECURSIVE DroppedBitsFrom(_, _, _)
DroppedBitsFrom(x, s, p) ==
    IF BigLess(x, p) THEN s ELSE DroppedBitsFrom(x, s + 1, BigMulAdd(p, 2, 0))

DroppedBits(x) == DroppedBitsFrom(x, 0, TwoTo53)

\* the double nearest to the natural number x (round half to even)
ToDouble(x) ==
    LET s == DroppedBits(x)
        m == 2 ^ s
        rem == BigModSmall(x, m)
        odd == BigModSmall(x, 2 * m) >= m
        up == 2 * rem > m \/ (2 * rem = m /\ odd)
    IN IF s = 0 THEN x ELSE BigAddInt(x, IF up THEN m - rem ELSE 0 - rem)

HexDigits == <<"0", "1", "2", "3", "4", "5", "6", "7", "8", "9", "a", "b", "c", "d", "e", "f">>

HexValue(c) == CHOOSE v \in 0..15 : HexDigits[v + 1] = c

\* str.split('-')
RECURSIVE SplitFrom(_, _, _)
SplitFrom(str, i, cur) ==
    IF i > Len(str) THEN <<cur>>
    ELSE IF str[i] = "-" THEN <<cur>> \o SplitFrom(str, i + 1, <<>>)
    ELSE SplitFrom(str, i + 1, Append(cur, str[i]))

Split(str) == SplitFrom(str, 1, <<>>)

\* str.substring(1)
Substring1(str) == IF Len(str) = 0 THEN str ELSE Tail(str)

\* the exact value of a string of hexadecimal digits
RECURSIVE HexFrom(_, _, _)
HexFrom(str, i, acc) ==
    IF i > Len(str) THEN acc ELSE HexFrom(str, i + 1, BigMulAdd(acc, 16, HexValue(str[i])))

\* parseInt(str, 16) of a string of hexadecimal digits: a number, so a double
ParseIntHex(str) == ToDouble(HexFrom(str, 1, <<>>))

\* a variant that keeps the version nibble
TimeStr_KeepVersion(uuid_arr) == uuid_arr[3] \o uuid_arr[2] \o uuid_arr[1]

\* [uuid_arr[2].substring(1), uuid_arr[1], uuid_arr[0]].join('')
TimeStr(uuid_arr) == Substring1(uuid_arr[3]) \o uuid_arr[2] \o uuid_arr[1]

getTimeIntFromUUID(uuid_str) == ParseIntHex(TimeStr(Split(uuid_str)))

\* a - b of two doubles a, b >= 0: the exact difference, rounded to a double
DoubleSub(a, b) ==
    IF BigLess(a, b) THEN [neg |-> TRUE, mag |-> ToDouble(BigSub(b, a))]
    ELSE [neg |-> FALSE, mag |-> ToDouble(BigSub(a, b))]

\* the binary exponent e of a natural n >= 2^39 (2^e <= n < 2^(e+1)), and 38
\* for every smaller n; p is 2^e
RECURSIVE ExponentFrom(_, _, _)
ExponentFrom(n, e, p) ==
    IF BigLess(n, p) THEN e - 1 ELSE ExponentFrom(n, e + 1, BigMulAdd(p, 2, 0))

Exponent(n) == ExponentFrom(n, 39, TwoTo39)

\* Whether the double nearest to n + k/10000 (1 <= k < 10000) is the integer
\* k/10000 away: it is when k/10000 is below half the spacing 2^(e-52) of the
\* doubles there.  Below 2^39 the spacing is too fine for any k, and no k of
\* a quotient below 2^49 lies exactly half a spacing away.
RoundsToInteger(n, k) ==
    LET e == Exponent(n)
    IN e >= 39 /\ k * 2 ^ (53 - e) < TicksPerMs

\* Math.floor(d / 10000) of a double d, the quotient being a double too
FloorDivTicks(d) ==
    LET n == IF Len(d.mag) = 0 THEN d.mag ELSE Tail(d.mag)
        r == IF Len(d.mag) = 0 THEN 0 ELSE d.mag[1]
    IN IF r = 0 THEN [neg |-> d.neg /\ Len(n) > 0, mag |-> n]
       ELSE IF ~d.neg
       THEN [neg |-> FALSE,
             mag |-> IF RoundsToInteger(n, TicksPerMs - r) THEN BigAddInt(n, 1) ELSE n]
       ELSE LET c == IF RoundsToInteger(n, r) THEN n ELSE BigAddInt(n, 1)
            IN [neg |-> Len(c) > 0, mag |-> c]

\* the millisecond count of the Date returned, with its sign
getDateFromUUID(uuid_str) ==
    FloorDivTicks(DoubleSub(getTimeIntFromUUID(uuid_str), EpochOffset))

(***************************************************************************)
(* The UUIDs decoded: built, as a version-1 generator does, from a         *)
(* timestamp of gms milliseconds plus ticks 100ns ticks since 1582-10-15.  *)
(***************************************************************************)
\* x div m, for small m
RECURSIVE DivFrom(_, _, _, _)
DivFrom(x, m, i, r) ==
    IF i = 0 THEN <<>>
    ELSE LET t == r * TicksPerMs + x[i]
         IN Append(DivFrom(x, m, i - 1, t % m), t \div m)

BigDivSmall(x, m) == BigNorm(DivFrom(x, m, Len(x), 0))

\* x + y
RECURSIVE AddFrom(_, _, _, _)
AddFrom(x, y, i, c) ==
    IF i > Len(x) /\ i > Len(y) THEN (IF c = 0 THEN <<>> ELSE <<c>>)
    ELSE LET t == (IF i <= Len(x) THEN x[i] ELSE 0) + (IF i <= Len(y) THEN y[i] ELSE 0) + c
         IN <<t % TicksPerMs>> \o AddFrom(x, y, i + 1, t \div TicksPerMs)

BigAdd(x, y) == BigNorm(AddFrom(x, y, 1, 0))

\* the n hexadecimal digits of x, most significant first
RECURSIVE ToHex(_, _)
ToHex(x, n) ==
    IF n = 0 THEN <<>>
    ELSE Append(ToHex(BigDivSmall(x, 16), n - 1), HexDigits[BigModSmall(x, 16) + 1])

\* the 60-bit tick count of a timestamp
TickCount(gms, ticks) == BigNorm(<<ticks>> \o gms)

\* time_low - time_mid - version and time_hi - clock_seq - node
UuidV1(gms, ticks, clock) ==
    LET h == ToHex(TickCount(gms, ticks), 15)
    IN SubSeq(h, 8, 15) \o <<"-">> \o SubSeq(h, 4, 7) \o <<"-", "1">> \o SubSeq(h, 1, 3)
         \o <<"-">> \o clock \o <<"-", "0", "0", "8", "0", "5", "f", "9", "b", "3", "4", "f", "b">>

\* 1970-01-01 in milliseconds since 1582-10-15: 12219292800000
EpochOffsetMs == Tail(EpochOffset)

\* milliseconds since 1582-10-15, from every range of the 60 bits:
\* 1582 itself, 1611 (below 2^53 ticks), 1741, 1970 and 1 ms before it, 2020
\* (and 1 ms later), 2039, 2255, 2850 and 5068 (and 1 ms later each)
UuidMillis ==
    {<<>>, <<5>>, <<0, 0, 9000>>, <<0, 0, 0, 5>>,
     <<9999, 9279, 2192, 12>>, <<0, 9280, 2192, 12>>,
     <<0, 9280, 8192, 13>>, <<1, 9280, 8192, 13>>,
     <<0, 9280, 4192, 14>>, <<1, 9280, 4192, 14>>,
     <<0, 9280, 2192, 21>>, <<1, 9280, 2192, 21>>,
     <<0, 0, 0, 40>>, <<1, 0, 0, 40>>, <<0, 0, 0, 110>>, <<1, 0, 0, 110>>}

UuidTicks ==
    {0, 1, 7, 8, 9, 15, 16, 24, 32, 48, 64, 65, 5000,
     9935, 9936, 9952, 9968, 9983, 9984, 9991, 9992, 9993, 9999}

UuidClocks == {<<"8", "0", "0", "0">>, <<"b", "f", "f", "f">>}

UuidInit ==
    /\ uu \in { [pc |-> "ready", gms |-> m, ticks |-> t, uuid |-> UuidV1(m, t, c),
                 timeInt |-> <<>>, date |-> [neg |-> FALSE, mag |-> <<>>]]
                  : m \in UuidMillis, t \in UuidTicks, c \in UuidClocks }
    /\ svc = Idle /\ mw = Idle /\ route = Idle /\ pk = Idle /\ ie = Idle
    /\ le = Idle /\ pin = Idle /\ conc = Idle

UuidGetTimeInt ==
    /\ uu.pc = "ready"
    /\ uu' = [uu EXCEPT !.pc = "timed", !.timeInt = getTimeIntFromUUID(uu.uuid)]
    /\ UNCHANGED <<svc, mw, route, pk, ie, le, pin, conc>>

UuidGetDate ==
    /\ uu.pc = "timed"
    /\ uu' = [uu EXCEPT !.pc = "done", !.date = getDateFromUUID(uu.uuid)]
    /\ UNCHANGED <<svc, mw, route, pk, ie, le, pin, conc>>

UuidNext == UuidGetTimeInt \/ UuidGetDate

SpecUuid == UuidInit /\ [][UuidNext]_vars

(***************************************************************************)
(* logicError: the APILogicError built from argument values, and its       *)
(* toJSON.  The arguments are of the declared types: title and message     *)
(* strings (or left out), httpCode and logicErrCode numbers, pars strings, *)
(* numbers and booleans.                                                   *)
(***************************************************************************)
\* new APILogicError(title, message, httpCode, logicErrCode, ...pars): super
\* sets message, then every field is assigned from its argument
NewAPILogicError(title, message, httpCode, logicErrCode, pars) ==
    ObjOf("APILogicError",
          [title |-> title, message |-> message, httpCode |-> httpCode,
           logicErrCode |-> logicErrCode, pars |-> Arr(pars), stack |-> Str("stack")])

\* a variant that passes the two codes in each other's place
logicError_Swapped(title, msg, httpError, errorCode, pars) ==
    NewAPILogicError(title, msg, errorCode, httpError, pars)

\* Utils.logicError(title, msg, httpError, errorCode, ...pars)
logicError(title, msg, httpError, errorCode, pars) ==
    NewAPILogicError(title, msg, httpError, errorCode, pars)

LogicErrorTitles == {Str("T"), Str("")}
LogicErrorMessages == {Str("M"), Str(""), Undefined}
LogicErrorHttpCodes == {Num(404), Num(0), NaN, Infinity}
LogicErrorCodes == {Num(10), Num(0), Num(404)}
LogicErrorPars ==
    {<<>>, <<Str("x")>>, <<Str("x"), Num(2)>>, <<Num(2), Str("x")>>,
     <<Bool(FALSE), Str("x"), Str("x")>>}

LogicErrorArgs ==
    { [title |-> ti, msg |-> m, httpError |-> h, errorCode |-> c, pars |-> p]
        : ti \in LogicErrorTitles, m \in LogicErrorMessages, h \in LogicErrorHttpCodes,
          c \in LogicErrorCodes, p \in LogicErrorPars }

LogicErrorInit ==
    /\ le \in { [pc |-> "ready", args |-> a, value |-> Undefined, json |-> Undefined]
                  : a \in LogicErrorArgs }
    /\ svc = Idle /\ mw = Idle /\ route = Idle /\ pk = Idle /\ ie = Idle /\ uu = Idle
    /\ pin = Idle /\ conc = Idle

\* const e = _.logicError(title, msg, httpError, errorCode, ...pars)
LogicErrorConstruct ==
    /\ le.pc = "ready"
    /\ le' = [le EXCEPT !.pc = "built",
                        !.value = logicError(le.args.title, le.args.msg, le.args.httpError,
                                             le.args.errorCode, le.args.pars)]
    /\ UNCHANGED <<svc, mw, route, pk, ie, uu, pin, conc>>

\* e.toJSON()
LogicErrorToJSON ==
    /\ le.pc = "built"
    /\ le' = [le EXCEPT !.pc = "done", !.json = toJSON(le.value)]
    /\ UNCHANGED <<svc, mw, route, pk, ie, uu, pin, conc>>

LogicErrorNext == LogicErrorConstruct \/ LogicErrorToJSON

SpecLogicError == LogicErrorInit /\ [][LogicErrorNext]_vars

(***************************************************************************)
(* parseIntNull.  lodash.parseInt(v) is parseInt(toString(v) without its   *)
(* leading whitespace, 0): an optional sign, an optional 0x prefix that    *)
(* selects base 16, then the longest run of digits of the base; NaN when   *)
(* that run is empty.                                                      *)
(***************************************************************************)
MaxStr == 3

DecimalDigits == <<"0", "1", "2", "3", "4", "5", "6", "7", "8", "9">>

\* the value of character c as a digit of base 16, -1 when it is none
DigitValue(c) ==
    CASE c \in {DecimalDigits[i] : i \in 1..10} ->
           (CHOOSE i \in 1..10 : DecimalDigits[i] = c) - 1
      [] c \in {"a", "A"} -> 10
      [] c \in {"b", "B"} -> 11
      [] c \in {"c", "C"} -> 12
      [] c \in {"d", "D"} -> 13
      [] c \in {"e", "E"} -> 14
      [] c \in {"f", "F"} -> 15
      [] OTHER -> -1

IsDigitOf(c, radix) == DigitValue(c) >= 0 /\ DigitValue(c) < radix

\* the decimal digits of n >= 0
RECURSIVE NatToChars(_)
NatToChars(n) ==
    IF n < 10 THEN <<DecimalDigits[n + 1]>>
    ELSE NatToChars(n \div 10) \o <<DecimalDigits[(n % 10) + 1]>>

\* lodash toString: '' for undefined and null, '-0' for -0, `${value}` for
\* the other numbers
LodashToString(v) ==
    CASE v.t \in {"undefined", "null"} -> <<>>
      [] v.t = "chars" -> v.cs
      [] v.t = "negzero" -> <<"-", "0">>
      [] v.t = "num" -> IF v.n < 0 THEN <<"-">> \o NatToChars(-v.n) ELSE NatToChars(v.n)
      [] v.t = "nan" -> <<"N", "a", "N">>

\* cs without its leading whitespace
RECURSIVE TrimStart(_)
TrimStart(cs) == IF cs # <<>> /\ Head(cs) = " " THEN TrimStart(Tail(cs)) ELSE cs

\* the value of the longest run of digits of the base at the head of cs,
\* acc being the value and any the presence of digits read so far; -1 when
\* there is no digit
RECURSIVE DigitsFrom(_, _, _, _)
DigitsFrom(cs, radix, acc, any) ==
    IF cs # <<>> /\ IsDigitOf(Head(cs), radix)
    THEN DigitsFrom(Tail(cs), radix, acc * radix + DigitValue(Head(cs)), TRUE)
    ELSE IF any THEN acc ELSE -1

\* parseInt(cs, 0)
NativeParseInt(cs) ==
    LET s0 == TrimStart(cs)
        signed == s0 # <<>> /\ Head(s0) \in {"-", "+"}
        neg == s0 # <<>> /\ Head(s0) = "-"
        s1 == IF signed THEN Tail(s0) ELSE s0
        hex == Len(s1) >= 2 /\ s1[1] = "0" /\ s1[2] \in {"x", "X"}
        s2 == IF hex THEN Tail(Tail(s1)) ELSE s1
        mag == DigitsFrom(s2, IF hex THEN 16 ELSE 10, 0, FALSE)
    IN IF mag < 0 THEN NaN
       ELSE IF mag = 0 THEN (IF neg THEN NegZero ELSE Num(0))
       ELSE Num(IF neg THEN -mag ELSE mag)

\* lodash.parseInt(v)
LodashParseInt(v) == NativeParseInt(TrimStart(LodashToString(v)))

\* a variant that returns every parsed number, zero included
parseIntNull_ZeroKept(v) ==
    LET i == LodashParseInt(v)
    IN IF IsNaN(i) THEN Null ELSE i

\* Utils.parseIntNull(v): isNaN(i) ? null : (i || null)
parseIntNull(v) ==
    LET i == LodashParseInt(v)
    IN IF IsNaN(i) THEN Null ELSE (IF Truthy(i) THEN i ELSE Null)

ParseChars == {"0", "1", "7", "a", "x", "-", " "}

ParseInputs ==
    {Chars(cs) : cs \in SeqsUpTo(ParseChars, MaxStr)}
      \cup {Undefined, Null, NaN, NegZero, Num(0), Num(7), Num(-7), Num(170)}

ParseIntNullInit ==
    /\ pin \in { [pc |-> "ready", v |-> v, out |-> Undefined] : v \in ParseInputs }
    /\ svc = Idle /\ mw = Idle /\ route = Idle /\ pk = Idle /\ ie = Idle /\ uu = Idle
    /\ le = Idle /\ conc = Idle

ParseIntNullCall ==
    /\ pin.pc = "ready"
    /\ pin' = [pin EXCEPT !.pc = "done", !.out = parseIntNull(pin.v)]
    /\ UNCHANGED <<svc, mw, route, pk, ie, uu, le, conc>>

ParseIntNullNext == ParseIntNullCall

SpecParseIntNull == ParseIntNullInit /\ [][ParseIntNullNext]_vars

(***************************************************************************)
(* SpecConc: several requests in flight through one handler built by       *)
(* routeAsync or routeNextableAsync.  Each call of the middleware has its  *)
(* own closure: chains[r] is the promise chain of call r, with the         *)
(* callback it closed over (cb, the response the callback was derived      *)
(* from) and the outcome of the promise its handlers are attached to;      *)
(* targets[i] is response object i with the calls made on the callback     *)
(* derived from it.  The event loop runs one step of one chain at a time,  *)
(* in any order.                                                           *)
(***************************************************************************)
NewChain ==
    [pc |-> "new", cb |-> 0, outcome |-> NoOutcome, raised |-> Undefined,
     logged |-> <<>>, unhandled |-> FALSE]

NewTarget == [resp |-> FreshResp, calls |-> <<>>]

\* a variant where every call's callback is the one derived from the first
\* call's response
CallbackFor_First(r) == 1

\* callback = callbackProvider ? callbackProvider(req, resp)
\*                             : this.createServiceCallback(resp),
\* with the resp of call r: the callback writes to response r
CallbackFor(r) == r

\* chain c together with the response and call log its callback closes over
Closure(c) ==
    [pc |-> c.pc, outcome |-> c.outcome, resp |-> conc.targets[c.cb].resp,
     calls |-> conc.targets[c.cb].calls, raised |-> c.raised, logged |-> c.logged,
     unhandled |-> c.unhandled]

\* conc after chain r ran a handler that left its closure as q
AfterHandler(r, q) ==
    [conc EXCEPT
       !.chains[r] = [pc |-> q.pc, cb |-> conc.chains[r].cb, outcome |-> q.outcome,
                      raised |-> q.raised, logged |-> q.logged, unhandled |-> q.unhandled],
       !.targets[conc.chains[r].cb] = [resp |-> q.resp, calls |-> q.calls]]

ConcInit ==
    /\ conc \in { [wrapper |-> w, provider |-> p,
                   chains |-> [r \in Requests |-> NewChain],
                   targets |-> [r \in Requests |-> NewTarget]]
                    : w \in Wrappers, p \in Providers }
    /\ svc = Idle /\ mw = Idle /\ route = Idle /\ pk = Idle /\ ie = Idle /\ uu = Idle
    /\ le = Idle /\ pin = Idle

\* call r of the middleware: the callback is derived from this call's
\* (req, resp), the handler returns its promise and the handlers are attached
ConcInvoke(r) ==
    /\ conc.chains[r].pc = "new"
    /\ conc' = [conc EXCEPT !.chains[r].pc = "pending", !.chains[r].cb = CallbackFor(r)]
    /\ UNCHANGED <<svc, mw, route, pk, ie, uu, le, pin>>

\* the promise of call r's handler settles
ConcSettle(r) ==
    /\ conc.chains[r].pc = "pending"
    /\ \E o \in {[kind |-> "resolve", v |-> d] : d \in RouteData}
                  \cup {[kind |-> "reject", v |-> e] : e \in RouteErrors} :
         conc' = [conc EXCEPT !.chains[r].pc = "settled", !.chains[r].outcome = o]
    /\ UNCHANGED <<svc, mw, route, pk, ie, uu, le, pin>>

\* the handler that call r attached with .then runs on the outcome of call
\* r's promise
ConcReact(r) ==
    /\ conc.chains[r].pc = "settled"
    /\ LET c == conc.chains[r]
           q == Closure(c)
           p == conc.provider
       IN conc' = AfterHandler(r,
                    IF conc.wrapper = "routeAsync"
                    THEN (IF c.outcome.kind = "resolve"
                          THEN routeAsyncThen(p, q, c.outcome.v)
                          ELSE routeAsyncRejected(p, q, c.outcome.v))
                    ELSE (IF c.outcome.kind = "resolve"
                          THEN routeNextableAsyncThen(p, q, c.outcome.v)
                          ELSE routeNextableAsyncRejected(p, q, c.outcome.v)))
    /\ UNCHANGED <<svc, mw, route, pk, ie, uu, le, pin>>

\* the handler that call r of routeAsync attached with .catch runs
ConcCatch(r) ==
    /\ conc.chains[r].pc = "caught"
    /\ conc' = AfterHandler(r, routeAsyncCatch(conc.provider, Closure(conc.chains[r])))
    /\ UNCHANGED <<svc, mw, route, pk, ie, uu, le, pin>>

ConcNext ==
    \E r \in Requests :
        \/ ConcInvoke(r)
        \/ ConcSettle(r)
        \/ ConcReact(r)
        \/ ConcCatch(r)

SpecConc == ConcInit /\ [][ConcNext]_vars

(***************************************************************************)
(* Properties of the envelope callback (checked under SpecSvc).            *)
(***************************************************************************)
SvcCalled == svc.pc = "called"

\* a number with a finite value
IsFiniteNumber(v) == v.t = "num"

\* C3: called with an error object, the callback sets the status to the
\* error's httpCode when that is a finite number and to 500 otherwise, and
\* sends one body whose err field carries the error's message.
C3_StatusAndMessage ==
    (SvcCalled /\ svc.err.t = "obj") =>
        /\ ~svc.threw
        /\ svc.resp.statusCode =
             (IF IsFiniteNumber(Get(svc.err, "httpCode")) THEN Get(svc.err, "httpCode") ELSE Num(500))
        /\ Len(svc.resp.sent) = 1
        /\ Get(Get(svc.resp.sent[1], "err"), "message") = Get(svc.err, "message")

\* the data values that are present: neither undefined nor null
DataGiven(data) == data # Undefined /\ data # Null

\* C4: called with no error and a data value, the callback sets
\* status 200 and sends exactly the JSON round trip of the data, once, for
\* every data value, the falsy ones included.
C4_RoundTripForEveryData ==
    (SvcCalled /\ svc.err = Null /\ DataGiven(svc.data)) =>
        /\ svc.resp.statusCode = Num(200)
        /\ svc.resp.sent = <<JSONRoundTrip(svc.data)>>

(***************************************************************************)
(* Properties of the middleware (checked under SpecMw).                    *)
(***************************************************************************)
MwDone == mw.pc = "done"

\* what a validation middleware must have done with the payload it validates
ValidOutcome(subject) ==
    IF ValidatorAccepts(mw.validator, subject)
    THEN mw.nextCalls = 1 /\ mw.resp = FreshResp
    ELSE /\ mw.nextCalls = 0
         /\ mw.resp.statusCode = Num(400)
         /\ mw.resp.sent = <<Obj([err |-> ValidatorErrors(mw.validator, subject)])>>

\* C6: validBody / validQuery answer a rejected body / query with status 400
\* and {err: validator.errors}, sent once, without calling next; an accepted
\* one calls next exactly once and writes nothing.  The request is untouched.
C6_ValidationShortCircuits ==
    /\ (MwDone /\ mw.kind = "validBody" => ValidOutcome(mw.req0.body) /\ mw.req = mw.req0)
    /\ (MwDone /\ mw.kind = "validQuery" => ValidOutcome(mw.req0.query) /\ mw.req = mw.req0)

\* C6 witness: validQuery rejected a query although the body would pass.
C6_QueryRejected ==
    /\ MwDone /\ mw.kind = "validQuery"
    /\ ValidatorAccepts(mw.validator, mw.req.body)
    /\ ~ValidatorAccepts(mw.validator, mw.req.query)
    /\ mw.resp.statusCode = Num(400) /\ Len(mw.resp.sent) = 1 /\ mw.nextCalls = 0

\* what a transform middleware must have done to the payload src0, now src1
TransformOutcome(src0, src1) ==
    \A i \in 1..Len(mw.schema) :
        LET e == mw.schema[i]
            d == Get(src0, e.k)
        IN IF ~IsFunction(e.f) \/ TransformerThrows(e.f, d)
           THEN Get(src1, e.k) = d
           ELSE src0.t = "obj" => Get(src1, e.k) = TransformerResult(e.f, d)

\* C7: transformBody / transformQuery call next exactly once and write
\* nothing to the response, whatever the schema; a field whose transformer
\* throws keeps its value and the other fields of the payload are transformed.
C7_TransformAlwaysProceeds ==
    /\ (MwDone /\ mw.kind \in {"transformBody", "transformQuery"} =>
          mw.nextCalls = 1 /\ mw.resp = FreshResp)
    /\ (MwDone /\ mw.kind = "transformBody" =>
          TransformOutcome(mw.req0.body, mw.req.body) /\ mw.req.query = mw.req0.query)
    /\ (MwDone /\ mw.kind = "transformQuery" =>
          TransformOutcome(mw.req0.query, mw.req.query) /\ mw.req.body = mw.req0.body)

\* C7 witness: the transformer of a threw, a kept its value, and b, which
\* comes after it in the schema, was transformed.
C7_ThrowThenTransform ==
    /\ MwDone /\ mw.kind = "transformBody"
    /\ Len(mw.schema) = 2 /\ mw.schema[1].f = "boom" /\ mw.schema[2].f = "inc"
    /\ mw.req0.body = Obj([b |-> Num(5)])
    /\ Get(mw.req.body, "b") = Num(6)
    /\ mw.nextCalls = 1

(***************************************************************************)
(* Properties of the route wrappers (checked under SpecRoute).             *)
(***************************************************************************)
\* request r has left the wrapper: its promise chain has run to its end, or
\* the middleware threw
Finished(r) == route.reqs[r].pc \in {"done", "threw"}

\* C1: every request that went through a routeAsync handler had its callback
\* invoked exactly once, whether the handler resolved, rejected or threw
\* before returning a promise, and also when the callback itself throws.
C1_ExactlyOneCallback ==
    \A r \in Requests :
        (route.wrapper = "routeAsync" /\ Finished(r)) => Len(route.reqs[r].calls) = 1

\* C2: through routeNextableAsync, a handler that resolves with a result
\* other than undefined and null has the callback invoked once with
\* (null, result); one that resolves with undefined or null has it never
\* invoked and the response left as it was; one that rejects has it invoked
\* once with the error.
C2_NextableCallback ==
    \A r \in Requests :
        LET q == route.reqs[r]
        IN (route.wrapper = "routeNextableAsync" /\ q.pc = "done") =>
             /\ (q.outcome.kind = "resolve" /\ q.outcome.v \notin {Undefined, Null} =>
                   q.calls = <<[err |-> Null, data |-> q.outcome.v]>>)
             /\ (q.outcome.kind = "resolve" /\ q.outcome.v \in {Undefined, Null} =>
                   q.calls = <<>> /\ q.resp = FreshResp)
             /\ (q.outcome.kind = "reject" =>
                   q.calls = <<[err |-> q.outcome.v, data |-> Undefined]>>)

\* C2 witness: of two requests through routeNextableAsync, one resolved with
\* null and was left alone, the other resolved with 0 and was answered.
C2_AbsentSkippedFalsyAnswered ==
    /\ route.wrapper = "routeNextableAsync"
    /\ \E r1, r2 \in Requests :
         /\ route.reqs[r1].pc = "done" /\ route.reqs[r1].outcome = [kind |-> "resolve", v |-> Null]
         /\ route.reqs[r1].calls = <<>>
         /\ route.reqs[r2].pc = "done" /\ route.reqs[r2].outcome = [kind |-> "resolve", v |-> Num(0)]
         /\ Len(route.reqs[r2].calls) = 1

\* an APILogicError value
IsLogicError(v) == v.t = "obj" /\ v.cls = "APILogicError"

\* the wire shape {httpCode, code, title, message, pars} of a logic error
WireShape(e) ==
    Obj([httpCode |-> e.o.httpCode, code |-> e.o.logicErrCode, title |-> e.o.title,
         message |-> e.o.message, pars |-> e.o.pars])

\* C5: a LogicError with which a handler wrapped by routeAsync (no callback
\* provider) rejects reaches the response in its wire shape: the status is the
\* error's httpCode and the one body sent is {err: {httpCode, code, title,
\* message, pars}}, code being the logicErrCode given at construction.
C5_LogicErrorWire ==
    \A r \in Requests :
        LET q == route.reqs[r]
        IN (/\ route.wrapper = "routeAsync" /\ route.provider = "default"
            /\ q.pc = "done" /\ q.outcome.kind = "reject" /\ IsLogicError(q.outcome.v)) =>
             /\ q.resp.statusCode = q.outcome.v.o.httpCode
             /\ q.resp.sent = <<Obj([err |-> WireShape(q.outcome.v)])>>

\* C5 witness: a request was answered 409 with application code 0 and three
\* context parameters.
C5_LogicErrorAnswered ==
    /\ route.wrapper = "routeAsync" /\ route.provider = "default"
    /\ \E r \in Requests :
         /\ route.reqs[r].pc = "done" /\ route.reqs[r].outcome.kind = "reject"
         /\ IsLogicError(route.reqs[r].outcome.v)
         /\ route.reqs[r].resp.statusCode = Num(409)
         /\ Len(route.reqs[r].resp.sent) = 1
         /\ Get(Get(route.reqs[r].resp.sent[1], "err"), "code") = Num(0)
         /\ Len(Get(Get(route.reqs[r].resp.sent[1], "err"), "pars").a) = 3

(***************************************************************************)
(* Properties of pack (checked under SpecPack).                            *)
(***************************************************************************)
\* C8: pack returns as many tuples as the longest input has elements (none
\* when every input is empty or there is no input); tuple i has one element
\* per input, the j-th being arrays[j][i] where input j has an i-th element
\* and undefined where it has not.
C8_PackShape ==
    pk.pc = "done" =>
        LET n == Len(pk.arrs)
        IN /\ \A j \in 1..n : Len(pk.arrs[j]) <= Len(pk.out)
           /\ (Len(pk.out) > 0 => \E j \in 1..n : Len(pk.arrs[j]) = Len(pk.out))
           /\ \A i \in 1..Len(pk.out) :
                /\ Len(pk.out[i]) = n
                /\ \A j \in 1..n :
                     pk.out[i][j] = (IF i <= Len(pk.arrs[j]) THEN pk.arrs[j][i] ELSE Undefined)

\* C8 witness: a shorter second input was padded with undefined.
C8_ShorterInputPadded ==
    /\ pk.pc = "done"
    /\ Len(pk.arrs) = 2 /\ Len(pk.arrs[1]) = MaxLen /\ Len(pk.arrs[2]) = MaxLen - 1
    /\ Len(pk.out) = MaxLen
    /\ pk.out[MaxLen] = <<pk.arrs[1][MaxLen], Undefined>>

(***************************************************************************)
(* Properties of isEmpty (checked under SpecIsEmpty).                      *)
(***************************************************************************)
\* C9: isEmpty is true exactly of null, undefined, NaN, false, the empty
\* string, the empty array and the empty plain object, and false of every
\* other value, functions, dates and other non-plain objects included.
C9_EmptyExactly ==
    ie.pc = "done" =>
        (ie.out <=> ie.obj \in {Undefined, Null, NaN, Bool(FALSE), Str(""), Arr(<<>>), EmptyObj})

(***************************************************************************)
(* Properties of the UUID decoder (checked under SpecUuid).                *)
(***************************************************************************)
\* the 60-bit timestamp the UUID was built from
Embedded == TickCount(uu.gms, uu.ticks)

\* |x - y| <= d, for small d
BigWithin(x, y, d) == ~BigLess(BigAddInt(y, d), x) /\ ~BigLess(BigAddInt(x, d), y)

\* a millisecond count since 1970, counted from 1582-10-15 instead
SinceGregorian(date) ==
    IF date.neg THEN BigSub(EpochOffsetMs, date.mag) ELSE BigAdd(date.mag, EpochOffsetMs)

\* C10 as stated: getTimeIntFromUUID returns the embedded 60-bit timestamp T,
\* and getDateFromUUID the date of floor((T - 122192928000000000) / 10000) ms.
C10_ExactTimestamp ==
    /\ (uu.pc \in {"timed", "done"} => uu.timeInt = Embedded)
    /\ (uu.pc = "done" => SinceGregorian(uu.date) = uu.gms)

\* C10 amended: getTimeIntFromUUID returns T rounded to the nearest double,
\* which is T itself when T < 2^53 and otherwise at most 64 ticks from T, and
\* getDateFromUUID returns the date of floor((that number -
\* 122192928000000000) / 10000) ms as computed in doubles, which is at most
\* 1 ms from floor((T - 122192928000000000) / 10000) ms.
C10_RoundedTimestamp ==
    /\ (uu.pc \in {"timed", "done"} =>
          /\ BigWithin(uu.timeInt, Embedded, 64)
          /\ (BigLess(Embedded, TwoTo53) => uu.timeInt = Embedded))
    /\ (uu.pc = "done" => BigWithin(SinceGregorian(uu.date), uu.gms, 1))

\* C10 witness: a present-day timestamp 1 tick before the next millisecond
\* was decoded to that next millisecond.
C10_RoundedIntoNextMs ==
    /\ uu.pc = "done" /\ uu.ticks = TicksPerMs - 1
    /\ uu.gms = <<0, 9280, 8192, 13>>
    /\ SinceGregorian(uu.date) = BigAddInt(uu.gms, 1)
    /\ uu.timeInt # Embedded

(***************************************************************************)
(* Properties of logicError (checked under SpecLogicError).                *)
(***************************************************************************)
\* C11: logicError(title, message, httpCode, logicErrCode, ...pars).toJSON()
\* is {httpCode: httpCode, code: logicErrCode, title: title, message:
\* message, pars: [the context parameters in the order given]}, and the
\* value is constructed (an APILogicError) whatever the arguments.
C11_LogicErrorShape ==
    /\ (le.pc \in {"built", "done"} => le.value.t = "obj" /\ le.value.cls = "APILogicError")
    /\ (le.pc = "done" =>
          le.json = Obj([httpCode |-> le.args.httpError, code |-> le.args.errorCode,
                         title |-> le.args.title, message |-> le.args.msg,
                         pars |-> Arr(le.args.pars)]))

\* C11 witness: logicError("T", "M", 404, 10, "x").toJSON() was computed and
\* is {httpCode: 404, code: 10, title: "T", message: "M", pars: ["x"]}.
C11_ExampleSerialized ==
    /\ le.pc = "done"
    /\ le.args = [title |-> Str("T"), msg |-> Str("M"), httpError |-> Num(404),
                  errorCode |-> Num(10), pars |-> <<Str("x")>>]
    /\ le.json = Obj([httpCode |-> Num(404), code |-> Num(10), title |-> Str("T"),
                      message |-> Str("M"), pars |-> Arr(<<Str("x")>>)])

(***************************************************************************)
(* Properties of parseIntNull (checked under SpecParseIntNull).            *)
(***************************************************************************)
\* the input does not parse as an integer, or parses to zero
ParsesToNothingOrZero(v) == LodashParseInt(v) \in {NaN, Num(0), NegZero}

\* C12: parseIntNull returns null when its input does not parse as an
\* integer and when it parses to zero (parseIntNull("0") is null), and the
\* parsed integer, which is not zero, in every other case.
C12_ZeroAndUnparseableAreNull ==
    pin.pc = "done" =>
        /\ (ParsesToNothingOrZero(pin.v) => pin.out = Null)
        /\ (~ParsesToNothingOrZero(pin.v) =>
              pin.out = LodashParseInt(pin.v) /\ pin.out.t = "num" /\ pin.out.n # 0)
        /\ (pin.v = Chars(<<"0">>) => pin.out = Null)
        /\ (pin.v = Chars(<<" ", "-", "7">>) => pin.out = Num(-7))
        /\ (pin.v = Chars(<<"0", "x", "a">>) => pin.out = Num(10))
        /\ (pin.v = Chars(<<"1", "7", "x">>) => pin.out = Num(17))
        /\ (pin.v = Chars(<<"x", "1", "7">>) => pin.out = Null)

\* C12 witness: parseIntNull("0") was computed and is null.
C12_ZeroStringIsNull ==
    /\ pin.pc = "done"
    /\ pin.v = Chars(<<"0">>)
    /\ LodashParseInt(pin.v) = Num(0)
    /\ pin.out = Null

(***************************************************************************)
(* Properties of requests in flight together (checked under SpecConc).     *)
(***************************************************************************)
\* a request that is the only one, after the handler its promise's outcome
\* o reaches first
AloneReacted(w, p, o) ==
    LET q == [NewRequest EXCEPT !.pc = "pending", !.outcome = o]
    IN IF w = "routeAsync"
       THEN (IF o.kind = "resolve" THEN routeAsyncThen(p, q, o.v)
             ELSE routeAsyncRejected(p, q, o.v))
       ELSE (IF o.kind = "resolve" THEN routeNextableAsyncThen(p, q, o.v)
             ELSE routeNextableAsyncRejected(p, q, o.v))

\* ... and after its whole chain
AloneDone(w, p, o) ==
    LET q == AloneReacted(w, p, o)
    IN IF q.pc = "caught" THEN routeAsyncCatch(p, q) ELSE q

\* C13: with several requests in flight, in every order of their steps, the
\* callback of each request is the one derived from its own response, and
\* each response and its callback's calls are exactly what that request's
\* own handler outcome produces when the request is alone: nothing of
\* another request is ever delivered to it.
C13_RequestsIndependent ==
    \A r \in Requests :
        LET c == conc.chains[r]
            t == conc.targets[r]
            alone == IF c.pc = "caught"
                     THEN AloneReacted(conc.wrapper, conc.provider, c.outcome)
                     ELSE AloneDone(conc.wrapper, conc.provider, c.outcome)
        IN conc # Idle =>
             /\ (c.pc # "new" => c.cb = r)
             /\ (c.pc \in {"new", "pending", "settled"} => t = NewTarget)
             /\ (c.pc \in {"caught", "done"} =>
                   /\ t = [resp |-> alone.resp, calls |-> alone.calls]
                   /\ \A i \in 1..Len(t.calls) :
                        \/ t.calls[i] = [err |-> Null, data |-> c.outcome.v]
                        \/ t.calls[i] = [err |-> c.outcome.v, data |-> Undefined]
                        \/ t.calls[i] = [err |-> CallbackFailure, data |-> Undefined])

\* C13 witness: while the first request's promise has rejected with a 404
\* logic error that is not delivered yet, the second request, which resolved
\* with "a", was answered 200 with it, and the first response is untouched.
C13_SecondAnsweredFirstWaiting ==
    /\ conc # Idle /\ conc.wrapper = "routeAsync" /\ conc.provider = "default"
    /\ conc.chains[1].pc = "settled" /\ conc.chains[1].outcome.kind = "reject"
    /\ IsLogicError(conc.chains[1].outcome.v)
    /\ conc.targets[1] = NewTarget
    /\ conc.chains[2].pc = "done" /\ conc.chains[2].outcome = [kind |-> "resolve", v |-> Str("a")]
    /\ conc.targets[2].resp = [statusCode |-> Num(200), sent |-> <<Str("a")>>]

====
